---- MODULE Spec2Model ----
(***************************************************************************)
(* A model of pefty_llama/modeling_peft.py: the scoring pass               *)
(* (LLaMAModel.forward), the generation loop (LLaMAModel.generate) with    *)
(* its key/value cache, the masks and rotary position ids they build, the  *)
(* feed-forward block, and weight loading (create_model).                  *)
(*                                                                         *)
(* Tensors are modelled by their index structure.  A hidden state, a key   *)
(* or a value at one sequence position is a tag naming what it was         *)
(* computed from:                                                          *)
(*   hidden / value entry  <<kind, idx, token>>                            *)
(*   key entry             <<kind, idx, token, rope>>                      *)
(* with kind "tok" (column idx of input_ids), "gen" (the idx-th generated  *)
(* token), "virt" (the idx-th virtual prompt embedding) or "prefix" (the   *)
(* idx-th learned prefix key/value), and rope the rotary position id the   *)
(* key was rotated with (-1: not rotated).  A cache tensor                 *)
(* [batch, heads, seq, head_dim] is cache[i][h][s], head_dim collapsed.    *)
(***************************************************************************)
EXTENDS Integers, Sequences, FiniteSets, TLC

VARIABLES
    \* configuration and the caller's arguments (fixed during a run)
    peft_mode, num_prefix_tokens, pad_token_id, gradient_checkpointing,
    input_ids, generation_length,
    \* LLaMAModel.generate: its locals, and where it stands
    pc, num_valid_tokens, num_valid_kv_cache, total_seq_len, kv_cache,
    cur_input_ids, generated_token_ids_list, decode_step, output,
    \* what the calls of the decoder stack were given and computed
    scoreCall, primeCall, stepCall, argmaxIndex,
    \* shift_kv_cache_right applied to an arbitrary cache
    shiftIn, shiftValid, shiftOut,
    \* create_attention_mask applied to an arbitrary batch
    maskIn, maskOut,
    \* MLP.forward on a scalar channel
    mlpIn, mlpOut,
    \* create_model
    use_8bit, declared, files, file_i, state_keys, loadPc

genVars == <<peft_mode, num_prefix_tokens, pad_token_id, gradient_checkpointing,
             input_ids, generation_length,
             pc, num_valid_tokens, num_valid_kv_cache, total_seq_len, kv_cache,
             cur_input_ids, generated_token_ids_list, decode_step, output,
             scoreCall, primeCall, stepCall, argmaxIndex>>
shiftVars == <<shiftIn, shiftValid, shiftOut>>
maskVars == <<maskIn, maskOut>>
mlpVars == <<mlpIn, mlpOut>>
loadVars == <<use_8bit, declared, files, file_i, state_keys, loadPc>>
vars == <<genVars, shiftVars, maskVars, mlpVars, loadVars>>

----------------------------------------------------------------------------
(* Bounds of the model *)
MaxBatch == 2
MaxSeqLen == 2
MaxPrefix == 2
MaxGenLen == 2
\* the longest sequence and the most heads given to shift_kv_cache_right and
\* create_attention_mask when they are applied on their own
MaxFnLen == 3
\* the most checkpoint files given to create_model
MaxFiles == 2

(* config.n_layers and config.n_heads of the model instance *)
NLayers == 2
NHeads == 2

(* Program constants *)
rope_pad_token_id == 0
max_position == 2047
max_position_embeddings == 2048
\* torch.finfo(torch.float16).min; anything below it is -inf in that dtype
FinfoMin == -65504
NegInf == FinfoMin - 1

\* token ids, and the values of config.pad_token_id: with 0 the padding token is
\* the one create_rope_embed_ids takes for padding, with 1 it is not
Vocab == {0, 1}
PadIds == {0, 1}

PEFT_NONE == "none"
PEFT_PREFIX == "prefix"
PEFT_PROMPT == "prompt"
PEFT_LORA == "lora"
PEFT_ADAPTER == "adapter"
PEFT_BITFIT == "bitfit"
PEFT_IA3 == "ia3"
PEFT_PREFIX_ADAPTER == "prefix_adapter"
PeftModes == {PEFT_NONE, PEFT_PREFIX, PEFT_PROMPT, PEFT_LORA, PEFT_ADAPTER,
              PEFT_BITFIT, PEFT_IA3, PEFT_PREFIX_ADAPTER}

----------------------------------------------------------------------------
(* Tensor helpers *)

\* the size of a [batch, seq] tensor along dim 1
SeqLenOf(ids) == IF Len(ids) = 0 THEN 0 ELSE Len(ids[1])

\* torch.cat along the last dimension of two [q, k] matrices
CatLastDim(a, b) == [q \in 1..Len(a) |-> a[q] \o b[q]]

\* The result length of broadcasting two sizes (-1: not broadcastable)
BroadcastLen(a, b) ==
    IF a = b THEN a ELSE IF a = 1 THEN b ELSE IF b = 1 THEN a ELSE -1

\* A value of the dtype: what is below the smallest finite value is -inf
ToDtype(v) == IF v < FinfoMin THEN NegInf ELSE v

----------------------------------------------------------------------------
(* Masks *)

convert_mask_to_soft_mask(mask) ==
    [b \in 1..Len(mask) |->
        [q \in 1..Len(mask[b]) |->
            [k \in 1..Len(mask[b][q]) |-> ToDtype((1 - mask[b][q][k]) * FinfoMin)]]]

\* causal_mask with < for <=: a position may not attend itself
causal_mask_strict(ids) ==
    LET seq_length == SeqLenOf(ids)
    IN  << [i \in 1..seq_length |->
              [j \in 1..seq_length |-> IF j < i THEN 1 ELSE 0]] >>

\* [batch_size=1, q_len=seq_len, kv_len=seq_len]; 1 is True (the head axis,
\* always of size 1, is left out)
causal_mask(ids) ==
    LET seq_length == SeqLenOf(ids)
    IN  << [i \in 1..seq_length |->
              [j \in 1..seq_length |-> IF j <= i THEN 1 ELSE 0]] >>

create_attention_mask(ids) == convert_mask_to_soft_mask(causal_mask(ids))

\* zeros_like([1, 1, q, k]) without its two leading axes of size 1
zeros_like(q, k) == [i \in 1..q |-> [j \in 1..k |-> 0]]

\* attn_mask[i, 0, 0, -valid:] = True on a [batch, 1, 1, seq_len] tensor of False.
\* A Python slice -valid: starts at max(seq_len - valid, 0), and -0: is the
\* whole row.
create_generation_attention_mask(batch_size, seq_len, nvt) ==
    [i \in 1..batch_size |->
        << [k \in 1..seq_len |->
              IF nvt[i] = 0 \/ k > seq_len - nvt[i] THEN 1 ELSE 0] >>]

----------------------------------------------------------------------------
(* Rotary position ids *)

create_rope_embed_ids(ids) ==
    [i \in 1..Len(ids) |->
        [j \in 1..Len(ids[i]) |->
            IF ids[i][j] = rope_pad_token_id
            THEN max_position
            ELSE Cardinality({k \in 1..j : ids[i][k] # rope_pad_token_id}) - 1]]

\* F.embedding(rope_embed_ids, cos_cached[0, 0]) raises IndexError unless every
\* id is a row of the table, which is never rebuilt
get_cos_sin_ok(rope_embed_ids) ==
    \A i \in 1..Len(rope_embed_ids) : \A j \in 1..Len(rope_embed_ids[i]) :
        rope_embed_ids[i][j] >= 0 /\ rope_embed_ids[i][j] < max_position_embeddings

----------------------------------------------------------------------------
(* The key/value cache *)

\* shift_kv_cache_right with num_valid_tokens[0] used for every row
shift_kv_cache_right_first_row(layer_cache, nvt) ==
    [i \in 1..Len(layer_cache) |->
        [h \in 1..Len(layer_cache[i]) |->
            LET row == layer_cache[i][h]
                v == IF nvt[1] > Len(row) THEN Len(row) ELSE nvt[1]
            IN  SubSeq(row, v + 1, Len(row)) \o SubSeq(row, 1, v)]]

shift_kv_cache_right(layer_cache, nvt) ==
    [i \in 1..Len(layer_cache) |->
        [h \in 1..Len(layer_cache[i]) |->
            LET row == layer_cache[i][h]
                v == IF nvt[i] > Len(row) THEN Len(row) ELSE nvt[i]
            IN  SubSeq(row, v + 1, Len(row)) \o SubSeq(row, 1, v)]]

EmptyLayerCache(batch_size) ==
    [key |-> [i \in 1..batch_size |-> [h \in 1..NHeads |-> <<>>]],
     value |-> [i \in 1..batch_size |-> [h \in 1..NHeads |-> <<>>]]]

\* kv_cache as an argument: None, or a list of per-layer dicts
KvNone == [isNone |-> TRUE, layers |-> <<>>]
KvList(layers) == [isNone |-> FALSE, layers |-> layers]

init_kv_cache(ids) == [l \in 1..NLayers |-> EmptyLayerCache(Len(ids))]

\* peft.SoftPrefixes: num_prefix_tokens learned keys and values per layer,
\* not projected from tokens and not rotated
peft_prefixes(batch_size) ==
    [l \in 1..NLayers |->
        [key |-> [i \in 1..batch_size |-> [h \in 1..NHeads |->
                    [k \in 1..num_prefix_tokens |-> <<"prefix", k, -1, -1>>]]],
         value |-> [i \in 1..batch_size |-> [h \in 1..NHeads |->
                    [k \in 1..num_prefix_tokens |-> <<"prefix", k, -1>>]]]]]

\* peft.AddSoftPrompt: num_prefix_tokens learned embeddings in front of a row
peft_prompt(row) ==
    [k \in 1..num_prefix_tokens |-> <<"virt", k, -1>>] \o row

\* kv_cache[0]["key"].shape[2]
CachedLength(layers) == Len(layers[1].key[1][1])

----------------------------------------------------------------------------
(* The decoder stack *)

\* self.embed_tokens(input_ids): one hidden state per column, tagged with the
\* column it embeds (columns are numbered from base + 1)
embed_tokens(ids, kind, base) ==
    [i \in 1..Len(ids) |-> [j \in 1..Len(ids[i]) |-> <<kind, base + j, ids[i][j]>>]]

\* q * cos + rotate_half(q) * sin on one row [seq, head_dim] with cos, sin
\* [rope_len, head_dim]: the two sequence axes broadcast against each other
apply_rotary_pos_emb(row, rope_row) ==
    LET n == BroadcastLen(Len(row), Len(rope_row))
    IN  [p \in 1..n |->
            Append(row[IF Len(row) = 1 THEN 1 ELSE p],
                   rope_row[IF Len(rope_row) = 1 THEN 1 ELSE p])]

\* a layer's kv_cache argument: None, or a dict of key and value
LayerNone == [isNone |-> TRUE, key |-> <<>>, value |-> <<>>]
LayerKv(d) == [isNone |-> FALSE, key |-> d.key, value |-> d.value]

\* CatCache with the cached entries left out
CatCache_drop(cached, states) ==
    [i \in 1..Len(states) |-> [h \in 1..NHeads |-> states[i][h]]]

\* torch.cat([kv_cache[name], states], dim=2) when a cache is given
CatCache(cached, states) ==
    [i \in 1..Len(states) |-> [h \in 1..NHeads |-> cached[i][h] \o states[i][h]]]

Attention_forward(hidden_states, attention_mask, rope, layer_kv) ==
    LET batch_size == Len(hidden_states)
        q_seq_len == SeqLenOf(hidden_states)
        rot_len == BroadcastLen(q_seq_len, SeqLenOf(rope))
        query_states == [i \in 1..batch_size |-> [h \in 1..NHeads |->
                            apply_rotary_pos_emb(hidden_states[i], rope[i])]]
        new_value == [i \in 1..batch_size |-> [h \in 1..NHeads |-> hidden_states[i]]]
        key_states == IF layer_kv.isNone THEN query_states
                      ELSE CatCache(layer_kv.key, query_states)
        value_states == IF layer_kv.isNone THEN new_value
                        ELSE CatCache(layer_kv.value, new_value)
        k_len == Len(key_states[1][1])
        v_len == Len(value_states[1][1])
        \* scaled_dot_product_attention: key and value of one length, and the
        \* mask broadcastable to [batch, heads, q_len, k_len]
        sdpa_ok == /\ rot_len >= 0
                   /\ k_len = v_len
                   /\ Len(attention_mask) \in {1, batch_size}
                   /\ Len(attention_mask[1]) \in {1, rot_len}
                   /\ Len(attention_mask[1][1]) \in {1, k_len}
    IN  [ok |-> sdpa_ok, q_len |-> rot_len,
         key |-> key_states, value |-> value_states]

\* LLaMALayer.forward's parameters, in the order of its signature
LayerParams == <<"hidden_states", "attention_mask", "cos", "sin", "kv_cache">>

\* layer(hidden_states=..., attention_mask=..., kv_cache=layer_kv_cache,
\*       cos=cos, sin=sin): each parameter and the value it is bound to
KeywordCall ==
    [p \in {LayerParams[n] : n \in 1..Len(LayerParams)} |->
        IF p = "kv_cache" THEN "layer_kv_cache" ELSE p]

\* checkpoint(layer, hidden_states, attention_mask, kv_cache, cos, sin): the
\* values are bound to the parameters by position
CheckpointCall ==
    LET given == <<"hidden_states", "attention_mask", "kv_cache", "cos", "sin">>
    IN  [p \in {LayerParams[n] : n \in 1..Len(LayerParams)} |->
            given[CHOOSE n \in 1..Len(LayerParams) : LayerParams[n] = p]]

LayerCallArgs == IF gradient_checkpointing THEN CheckpointCall ELSE KeywordCall

\* q * cos raises TypeError unless cos is the cos tensor, likewise sin; and
\* `if kv_cache:` raises on a tensor
LayerArgsOk(args) ==
    args["cos"] = "cos" /\ args["sin"] = "sin" /\ args["kv_cache"] = "layer_kv_cache"

\* InnerHidden without the test of the cache: the prompt is added in every call
InnerHidden_every_call(embeds, kv) ==
    IF peft_mode = PEFT_PROMPT
    THEN [i \in 1..Len(embeds) |-> peft_prompt(embeds[i])]
    ELSE embeds

\* hidden_states after the optional virtual prompt
InnerHidden(embeds, kv) ==
    IF peft_mode = PEFT_PROMPT /\ (kv.isNone \/ CachedLength(kv.layers) = 0)
    THEN [i \in 1..Len(embeds) |-> peft_prompt(embeds[i])]
    ELSE embeds

\* LLaMAInnerModel.forward: what the layers were given and what they computed
LLaMAInnerModel_forward(embeds, attention_mask, rope, kv) ==
    LET hidden_states == InnerHidden(embeds, kv)
        \* `if kv_cache:` is False for None and for an empty list
        use_cache == ~kv.isNone /\ Len(kv.layers) > 0
        args == LayerCallArgs
        layer_out == [l \in 1..NLayers |->
                        Attention_forward(hidden_states, attention_mask, rope,
                            IF use_cache THEN LayerKv(kv.layers[l]) ELSE LayerNone)]
    IN  [called |-> TRUE,
         ok |-> LayerArgsOk(args) /\ \A l \in 1..NLayers : layer_out[l].ok,
         args |-> args,
         mask |-> attention_mask,
         rope |-> rope,
         hidden |-> hidden_states,
         q_len |-> layer_out[1].q_len,
         cached |-> IF use_cache THEN CachedLength(kv.layers) ELSE 0,
         keys |-> [l \in 1..NLayers |-> layer_out[l].key],
         values |-> [l \in 1..NLayers |-> layer_out[l].value],
         has_cache |-> use_cache]

NoCall ==
    [called |-> FALSE, ok |-> FALSE, args |-> KeywordCall, mask |-> <<>>,
     rope |-> <<>>, hidden |-> <<>>, q_len |-> 0, cached |-> 0,
     keys |-> <<>>, values |-> <<>>, has_cache |-> FALSE]

\* a call that raised in get_cos_sin, before the decoder stack was entered
RopeError(attention_mask, rope) ==
    [NoCall EXCEPT !.called = TRUE, !.mask = attention_mask, !.rope = rope]

\* torch.ones([batch, num_prefix_tokens]) in front of every row
WithPromptIds(ids) ==
    [i \in 1..Len(ids) |-> [k \in 1..num_prefix_tokens |-> 1] \o ids[i]]

(* LLaMAModel.forward *)
forward_attention_mask(ids) ==
    LET causal == create_attention_mask(ids)
        with_prefix == IF peft_mode = PEFT_PREFIX
                       THEN << CatLastDim(zeros_like(SeqLenOf(ids), num_prefix_tokens),
                                          causal[1]) >>
                       ELSE causal
    IN  IF peft_mode = PEFT_PROMPT
        THEN create_attention_mask(WithPromptIds(ids))
        ELSE with_prefix

forward_rope_embed_ids(ids) ==
    create_rope_embed_ids(IF peft_mode = PEFT_PROMPT THEN WithPromptIds(ids) ELSE ids)

LLaMAModel_forward(ids) ==
    LET attention_mask == forward_attention_mask(ids)
        rope_embed_ids == forward_rope_embed_ids(ids)
        kv == IF peft_mode = PEFT_PREFIX THEN KvList(peft_prefixes(Len(ids))) ELSE KvNone
    IN  IF get_cos_sin_ok(rope_embed_ids)
        THEN LLaMAInnerModel_forward(embed_tokens(ids, "tok", 0), attention_mask,
                                     rope_embed_ids, kv)
        ELSE RopeError(attention_mask, rope_embed_ids)

(* LLaMAModel.generate, first encoding *)
generate_attention_mask(ids) ==
    LET causal == create_attention_mask(ids)
        with_prefix == IF peft_mode \in {PEFT_PREFIX, PEFT_PROMPT}
                       THEN << CatLastDim(zeros_like(SeqLenOf(ids), num_prefix_tokens),
                                          causal[1]) >>
                       ELSE causal
    IN  IF peft_mode = PEFT_PROMPT
        THEN create_attention_mask(WithPromptIds(ids))
        ELSE with_prefix

\* generate_rope_embed_ids with torch.zeros for torch.ones in prompt mode
generate_rope_embed_ids_zeros(ids) ==
    create_rope_embed_ids(
        IF peft_mode = PEFT_PROMPT
        THEN [i \in 1..Len(ids) |-> [k \in 1..num_prefix_tokens |-> 0] \o ids[i]]
        ELSE ids)

generate_rope_embed_ids(ids) ==
    create_rope_embed_ids(IF peft_mode = PEFT_PROMPT THEN WithPromptIds(ids) ELSE ids)

\* (input_ids != self.config.pad_token_id).long().sum(dim=1)
CountValid(ids) ==
    [i \in 1..Len(ids) |-> Cardinality({j \in 1..Len(ids[i]) : ids[i][j] # pad_token_id})]

generate_prime(ids) ==
    LET attention_mask == generate_attention_mask(ids)
        rope_embed_ids == generate_rope_embed_ids(ids)
        kv == IF peft_mode = PEFT_PREFIX
              THEN KvList(peft_prefixes(Len(ids)))
              ELSE KvList(init_kv_cache(ids))
    IN  IF get_cos_sin_ok(rope_embed_ids)
        THEN LLaMAInnerModel_forward(embed_tokens(ids, "tok", 0), attention_mask,
                                     rope_embed_ids, kv)
        ELSE RopeError(attention_mask, rope_embed_ids)

(* LLaMAModel.generate, one subsequent step *)
\* create_rope_embed_ids(input_ids) + num_valid_tokens: [batch, 1] + [batch]
\* broadcasts to [batch, batch]
step_rope_embed_ids(ids, nvt) ==
    LET x == create_rope_embed_ids(ids)
    IN  [i \in 1..Len(ids) |-> [j \in 1..Len(nvt) |-> x[i][1] + nvt[j]]]

generate_step(ids, nvt, seq_len, cache, step) ==
    LET attention_mask == convert_mask_to_soft_mask(
                              create_generation_attention_mask(Len(ids), seq_len, nvt))
        rope_embed_ids == step_rope_embed_ids(ids, nvt)
    IN  IF get_cos_sin_ok(rope_embed_ids)
        THEN LLaMAInnerModel_forward(embed_tokens(ids, "gen", step), attention_mask,
                                     rope_embed_ids, KvList(cache))
        ELSE RopeError(attention_mask, rope_embed_ids)

\* the kv_cache a call returns: one dict per layer
CallCache(call) ==
    [l \in 1..NLayers |-> [key |-> call.keys[l], value |-> call.values[l]]]

\* `for i in range(batch_size): cache = shift_kv_cache_right(cache, ...)`
RECURSIVE ShiftTimes(_, _, _)
ShiftTimes(layer_cache, nvt, n) ==
    IF n = 0 THEN layer_cache
    ELSE ShiftTimes(shift_kv_cache_right(layer_cache, nvt), nvt, n - 1)

\* torch.cat(generated_token_ids_list, dim=1)
RECURSIVE CatChunks(_, _)
CatChunks(chunks, i) ==
    IF chunks = <<>> THEN <<>> ELSE Head(chunks)[i] \o CatChunks(Tail(chunks), i)

----------------------------------------------------------------------------
(* The other operations' variables while they are not the one being run *)
ShiftIdle == shiftIn = <<>> /\ shiftValid = <<>> /\ shiftOut = <<>>
MaskIdle == maskIn = <<>> /\ maskOut = <<>>
MlpIdle == mlpIn = <<>> /\ mlpOut = <<>>
LoadIdle == /\ use_8bit = FALSE /\ declared = {} /\ files = <<>>
            /\ file_i = 0 /\ state_keys = {} /\ loadPc = "idle"

----------------------------------------------------------------------------
(* Scoring and generation *)

\* Rows of seq_len tokens, left-aligned: valid tokens first (at least one),
\* then padding
Rows(pad, seq_len) ==
    {r \in [1..seq_len -> Vocab] :
        \E v \in 1..seq_len : \A j \in 1..seq_len : (r[j] # pad) <=> (j <= v)}

Batches(pad) ==
    UNION {[1..b -> Rows(pad, s)] : b \in 1..MaxBatch, s \in 1..MaxSeqLen}

GenInit ==
    /\ peft_mode \in PeftModes
    \* read in prefix and prompt mode only
    /\ num_prefix_tokens \in
          IF peft_mode \in {PEFT_PREFIX, PEFT_PROMPT} THEN 1..MaxPrefix ELSE {0}
    /\ pad_token_id \in PadIds
    /\ gradient_checkpointing = FALSE
    /\ input_ids \in Batches(pad_token_id)
    /\ generation_length \in 1..MaxGenLen
    /\ pc = "idle"
    /\ num_valid_tokens = <<>>
    /\ num_valid_kv_cache = <<>>
    /\ total_seq_len = 0
    /\ kv_cache = <<>>
    /\ cur_input_ids = <<>>
    /\ generated_token_ids_list = <<>>
    /\ decode_step = 0
    /\ output = <<>>
    /\ scoreCall = NoCall
    /\ primeCall = NoCall
    /\ stepCall = NoCall
    /\ argmaxIndex = <<>>

configVars == <<peft_mode, num_prefix_tokens, pad_token_id, gradient_checkpointing,
                input_ids, generation_length>>

\* LLaMAModel.gradient_checkpointing_enable, between two calls
gradient_checkpointing_enable ==
    /\ pc = "idle"
    /\ ~gradient_checkpointing
    /\ gradient_checkpointing' = TRUE
    /\ UNCHANGED <<peft_mode, num_prefix_tokens, pad_token_id, input_ids,
                   generation_length, pc, num_valid_tokens, num_valid_kv_cache,
                   total_seq_len, kv_cache, cur_input_ids, generated_token_ids_list,
                   decode_step, output, scoreCall, primeCall, stepCall, argmaxIndex>>

\* score(input_ids): LLaMAModel.forward, between two calls of generate
Forward ==
    /\ pc \in {"idle", "returned", "raised"}
    /\ ~scoreCall.called
    /\ scoreCall' = LLaMAModel_forward(input_ids)
    /\ UNCHANGED <<configVars, pc, num_valid_tokens, num_valid_kv_cache, total_seq_len,
                   kv_cache, cur_input_ids, generated_token_ids_list, decode_step,
                   output, primeCall, stepCall, argmaxIndex>>

\* generate, 1) Setup and 2) First encoding
Prime ==
    /\ pc = "idle"
    /\ LET batch_size == Len(input_ids)
           nvt == CountValid(input_ids)
           call == generate_prime(input_ids)
       IN  /\ primeCall' = call
           /\ num_valid_tokens' = nvt
           /\ num_valid_kv_cache' =
                 IF peft_mode = PEFT_PREFIX
                 THEN [i \in 1..batch_size |-> nvt[i] + num_prefix_tokens]
                 ELSE nvt
           /\ total_seq_len' = SeqLenOf(input_ids) +
                 (IF peft_mode \in {PEFT_PREFIX, PEFT_PROMPT} THEN num_prefix_tokens ELSE 0)
           /\ IF primeCall'.ok
              THEN \* generated_token_ids = logits.argmax(-1)[arange, num_valid_tokens-1]
                   \E tokens \in [1..batch_size -> Vocab] :
                      /\ pc' = "primed"
                      /\ kv_cache' = CallCache(primeCall')
                      /\ argmaxIndex' = [i \in 1..batch_size |-> nvt[i] - 1]
                      /\ cur_input_ids' = [i \in 1..batch_size |-> <<tokens[i]>>]
                      /\ generated_token_ids_list' =
                            <<input_ids, [i \in 1..batch_size |-> <<tokens[i]>>]>>
              ELSE /\ pc' = "raised"
                   /\ UNCHANGED <<kv_cache, argmaxIndex, cur_input_ids,
                                  generated_token_ids_list>>
    /\ UNCHANGED <<configVars, decode_step, output, scoreCall, stepCall>>

\* generate, 2.1 shift KV cache
Align ==
    /\ pc = "primed"
    /\ LET batch_size == Len(input_ids)
       IN  kv_cache' =
             [l \in 1..NLayers |->
                [key |-> ShiftTimes(kv_cache[l].key, num_valid_kv_cache, batch_size),
                 value |-> ShiftTimes(kv_cache[l].value, num_valid_kv_cache, batch_size)]]
    /\ pc' = "aligned"
    /\ UNCHANGED <<configVars, num_valid_tokens, num_valid_kv_cache, total_seq_len,
                   cur_input_ids, generated_token_ids_list, decode_step, output,
                   scoreCall, primeCall, stepCall, argmaxIndex>>

\* generate, 3) one iteration of the loop over decode_step
Step ==
    /\ pc = "aligned"
    /\ decode_step < generation_length - 1
    /\ LET batch_size == Len(input_ids)
           nvt == [i \in 1..batch_size |-> num_valid_tokens[i] + 1]
           call == generate_step(cur_input_ids, nvt, total_seq_len + 1, kv_cache,
                                 decode_step)
       IN  /\ num_valid_tokens' = nvt
           \* num_valid_kv_cache is num_valid_tokens itself unless it was
           \* computed as num_valid_tokens + num_prefix_tokens
           /\ num_valid_kv_cache' =
                 IF peft_mode = PEFT_PREFIX THEN num_valid_kv_cache ELSE nvt
           /\ total_seq_len' = total_seq_len + 1
           /\ stepCall' = call
           /\ IF stepCall'.ok
              THEN \* generated_token_ids = logits.argmax(-1)[:, -1:]
                   \E tokens \in [1..batch_size -> Vocab] :
                      /\ pc' = "aligned"
                      /\ kv_cache' = CallCache(stepCall')
                      /\ cur_input_ids' = [i \in 1..batch_size |-> <<tokens[i]>>]
                      /\ generated_token_ids_list' =
                            Append(generated_token_ids_list,
                                   [i \in 1..batch_size |-> <<tokens[i]>>])
                      /\ decode_step' = decode_step + 1
              ELSE /\ pc' = "raised"
                   /\ UNCHANGED <<kv_cache, cur_input_ids, generated_token_ids_list,
                                  decode_step>>
    /\ UNCHANGED <<configVars, output, scoreCall, primeCall, argmaxIndex>>

\* generate, return torch.cat(generated_token_ids_list, dim=1)
Return ==
    /\ pc = "aligned"
    /\ decode_step >= generation_length - 1
    /\ output' = [i \in 1..Len(input_ids) |-> CatChunks(generated_token_ids_list, i)]
    /\ pc' = "returned"
    /\ UNCHANGED <<configVars, num_valid_tokens, num_valid_kv_cache, total_seq_len,
                   kv_cache, cur_input_ids, generated_token_ids_list, decode_step,
                   scoreCall, primeCall, stepCall, argmaxIndex>>

Init == GenInit /\ ShiftIdle /\ MaskIdle /\ MlpIdle /\ LoadIdle

Next ==
    \/ gradient_checkpointing_enable /\ UNCHANGED <<shiftVars, maskVars, mlpVars, loadVars>>
    \/ Forward /\ UNCHANGED <<shiftVars, maskVars, mlpVars, loadVars>>
    \/ Prime /\ UNCHANGED <<shiftVars, maskVars, mlpVars, loadVars>>
    \/ Align /\ UNCHANGED <<shiftVars, maskVars, mlpVars, loadVars>>
    \/ Step /\ UNCHANGED <<shiftVars, maskVars, mlpVars, loadVars>>
    \/ Return /\ UNCHANGED <<shiftVars, maskVars, mlpVars, loadVars>>

Spec == Init /\ [][Next]_vars

----------------------------------------------------------------------------
(* shift_kv_cache_right on its own: every cell of the cache holds its own   *)
(* coordinates <<row, head, column>>, so that the result shows where each   *)
(* cell went                                                                *)

LabelledCache(batch_size, n_heads, seq_len) ==
    [i \in 1..batch_size |-> [h \in 1..n_heads |-> [c \in 1..seq_len |-> <<i, h, c>>]]]

ShiftInit ==
    /\ \E b \in 1..MaxBatch, n \in 1..NHeads, len \in 0..MaxFnLen :
          /\ shiftIn = LabelledCache(b, n, len)
          /\ shiftValid \in [1..b -> 0..len]
    /\ shiftOut = <<>>

ApplyShift ==
    /\ shiftOut = <<>>
    /\ shiftOut' = shift_kv_cache_right(shiftIn, shiftValid)
    /\ UNCHANGED <<shiftIn, shiftValid>>

GenIdle ==
    /\ peft_mode = PEFT_NONE /\ num_prefix_tokens = 0 /\ pad_token_id = 0
    /\ gradient_checkpointing = FALSE /\ input_ids = <<>> /\ generation_length = 0
    /\ pc = "idle" /\ num_valid_tokens = <<>> /\ num_valid_kv_cache = <<>>
    /\ total_seq_len = 0 /\ kv_cache = <<>> /\ cur_input_ids = <<>>
    /\ generated_token_ids_list = <<>> /\ decode_step = 0 /\ output = <<>>
    /\ scoreCall = NoCall /\ primeCall = NoCall /\ stepCall = NoCall
    /\ argmaxIndex = <<>>

InitShift == ShiftInit /\ GenIdle /\ MaskIdle /\ MlpIdle /\ LoadIdle
NextShift == ApplyShift /\ UNCHANGED <<genVars, maskVars, mlpVars, loadVars>>
SpecShift == InitShift /\ [][NextShift]_vars

----------------------------------------------------------------------------
(* create_attention_mask on its own *)

MaskInit ==
    /\ maskIn \in UNION {[1..b -> [1..len -> Vocab]] : b \in 1..MaxBatch, len \in 0..MaxFnLen}
    /\ maskOut = <<>>

ApplyMask ==
    /\ maskOut = <<>>
    /\ maskOut' = create_attention_mask(maskIn)
    /\ UNCHANGED maskIn

InitMask == MaskInit /\ GenIdle /\ ShiftIdle /\ MlpIdle /\ LoadIdle
NextMask == ApplyMask /\ UNCHANGED <<genVars, shiftVars, mlpVars, loadVars>>
SpecMask == InitMask /\ [][NextMask]_vars

----------------------------------------------------------------------------
(* MLP.forward on one channel: x, the three projections' weights and the    *)
(* PEFT parameters are integers.  An activation is <<a, b, c>>, standing    *)
(* for a * sigmoid(b) + c / 2.  Since sigmoid(0) = 1/2,                     *)
(* sigmoid(-b) = 1 - sigmoid(b), and e is transcendental, two activations   *)
(* are the same number exactly when their normal forms (a = 0 and b = 0,    *)
(* or a # 0 and b > 0) are the same triple.                                 *)

Normal(v) ==
    IF v[1] = 0 \/ v[2] = 0 THEN <<0, 0, v[3] + v[1]>>
    ELSE IF v[2] < 0 THEN <<-v[1], -v[2], v[3] + 2 * v[1]>>
    ELSE v

\* an integer as an activation
Num(z) == <<0, 0, 2 * z>>
\* F.silu(z) = z * sigmoid(z)
F_silu(z) == Normal(<<z, z, 0>>)
\* an activation times an integer
Times(v, z) == Normal(<<v[1] * z, v[2], v[3] * z>>)
\* an activation plus an integer
Plus(v, z) == <<v[1], v[2], v[3] + 2 * z>>

\* NoInitLinear(bias=False) on one channel
Linear(weight, z) == weight * z
\* peft.BitFitAddBias: adds the module's bias
BitFitAddBias(bias, z) == z + bias
\* peft.IA3ForMLP: rescales the intermediate state by the learned vector
IA3ForMLP(scale, v) == Times(v, scale)

MLP_forward(m) ==
    LET gate_proj0 == Linear(m.gate_w, m.x)
        up_proj0 == Linear(m.up_w, m.x)
        gate_proj == IF m.mode = PEFT_BITFIT
                     THEN BitFitAddBias(m.gate_b, gate_proj0) ELSE gate_proj0
        up_proj == IF m.mode = PEFT_BITFIT
                   THEN BitFitAddBias(m.gate_b, up_proj0) ELSE up_proj0
        silu_out == F_silu(gate_proj * up_proj)
        intermediate_state == IF m.mode = PEFT_IA3
                              THEN IA3ForMLP(m.ia3_l, silu_out) ELSE silu_out
        down_proj == Times(intermediate_state, m.down_w)
    IN  IF m.mode = PEFT_BITFIT THEN Plus(down_proj, m.down_b) ELSE down_proj

\* the values of an input and of a weight
Scalars == {-1, 1, 2}
\* the values of a BitFit bias
Biases == {0, 1}
\* the values of an IA3 scale
Scales == {1, 2}

MlpInit ==
    /\ \E mode \in PeftModes, x \in Scalars, gate_w \in Scalars, up_w \in Scalars,
          down_w \in Scalars :
          \E gate_b \in (IF mode = PEFT_BITFIT THEN Biases ELSE {0}),
             up_b \in (IF mode = PEFT_BITFIT THEN Biases ELSE {0}),
             down_b \in (IF mode = PEFT_BITFIT THEN Biases ELSE {0}),
             ia3_l \in (IF mode = PEFT_IA3 THEN Scales ELSE {1}) :
             mlpIn = [mode |-> mode, x |-> x, gate_w |-> gate_w, up_w |-> up_w,
                      down_w |-> down_w, gate_b |-> gate_b, up_b |-> up_b,
                      down_b |-> down_b, ia3_l |-> ia3_l]
    /\ mlpOut = <<>>

ApplyMLP ==
    /\ mlpOut = <<>>
    /\ mlpOut' = MLP_forward(mlpIn)
    /\ UNCHANGED mlpIn

InitMLP == MlpInit /\ GenIdle /\ ShiftIdle /\ MaskIdle /\ LoadIdle
NextMLP == ApplyMLP /\ UNCHANGED <<genVars, shiftVars, maskVars, loadVars>>
SpecMLP == InitMLP /\ [][NextMLP]_vars

----------------------------------------------------------------------------
(* create_model: loading the weights *)

\* model.state_dict(): the base weights, and the active PEFT variant's
BaseKeys == {"model.embed_tokens.weight", "lm_head.weight"}
PeftKeys == {"peft.weight"}
\* a key of a checkpoint file that the model does not declare
OtherKeys == {"other.weight"}

LoadInit ==
    /\ use_8bit \in BOOLEAN
    /\ declared \in {BaseKeys, BaseKeys \cup PeftKeys}
    \* the checkpoint's files in the order of filename_list, each by its keys
    /\ files \in UNION {[1..n -> SUBSET (BaseKeys \cup PeftKeys \cup OtherKeys)] :
                          n \in 0..MaxFiles}
    /\ file_i = 0
    /\ state_keys = declared
    /\ loadPc = "loading"

\* one iteration of `for filename in tqdm.tqdm(filename_list)`: every key of
\* the file is set or loaded and then removed from state_keys; set.remove raises
\* KeyError for a key that is not (or no longer) there
LoadFile ==
    /\ loadPc = "loading"
    /\ file_i < Len(files)
    /\ LET loaded == files[file_i + 1]
       IN  IF loaded \subseteq state_keys
           THEN /\ state_keys' = state_keys \ loaded
                /\ file_i' = file_i + 1
                /\ loadPc' = "loading"
           ELSE /\ loadPc' = "KeyError"
                /\ UNCHANGED <<state_keys, file_i>>
    /\ UNCHANGED <<use_8bit, declared, files>>

\* after the loop: `assert not state_keys` on the 8-bit path only, then
\* `return model`
FinishLoad ==
    /\ loadPc = "loading"
    /\ file_i = Len(files)
    /\ loadPc' = IF use_8bit /\ state_keys # {} THEN "AssertionError" ELSE "returned"
    /\ UNCHANGED <<use_8bit, declared, files, file_i, state_keys>>

InitLoad == LoadInit /\ GenIdle /\ ShiftIdle /\ MaskIdle /\ MlpIdle
NextLoad ==
    \/ LoadFile /\ UNCHANGED <<genVars, shiftVars, maskVars, mlpVars>>
    \/ FinishLoad /\ UNCHANGED <<genVars, shiftVars, maskVars, mlpVars>>
SpecLoad == InitLoad /\ [][NextLoad]_vars

----------------------------------------------------------------------------
(* Properties *)

\* The row's count of valid tokens and its padded length when generate was called
PromptValid == CountValid(input_ids)
PromptLen == SeqLenOf(input_ids)

\* C1: priming reproduces scoring.  For the same input_ids and PEFT mode, when
\* the layers are called with their arguments in place, score and the priming
\* pass of generate both complete, the priming pass gives the decoder stack the
\* same attention mask and the same rotary position ids as score does, the
\* stack sees the same hidden sequence, and every layer attends the same keys
\* and values.
ThmC1_PrimingReproducesScoring ==
    (/\ scoreCall.called /\ LayerArgsOk(scoreCall.args)
     /\ primeCall.called /\ LayerArgsOk(primeCall.args)) =>
        /\ scoreCall.ok /\ primeCall.ok
        /\ primeCall.mask = scoreCall.mask
        /\ primeCall.rope = scoreCall.rope
        /\ primeCall.hidden = scoreCall.hidden
        /\ primeCall.q_len = scoreCall.q_len
        /\ primeCall.keys = scoreCall.keys
        /\ primeCall.values = scoreCall.values

WitC1_ScoredAndPrimed ==
    /\ scoreCall.ok /\ primeCall.ok
    /\ peft_mode = PEFT_PROMPT
    /\ Len(input_ids) = 2 /\ PromptLen = 2
    /\ PromptValid[1] # PromptValid[2]

\* The sequence scored in one call that a run of generate has built so far:
\* the prompt of row 1 and the generated tokens that were fed back
FullSequence ==
    input_ids[1] \o [m \in 1..decode_step |-> generated_token_ids_list[m + 1][1][1]]

\* A key of a generated token, named as the column of the full sequence it is
CanonKey(e) == IF e[1] = "gen" THEN <<"tok", PromptLen + e[2], e[3], e[4]>> ELSE e

\* The keys a mask row lets a query attend: entry 0 of the additive mask
Attended(keys, mask_row) ==
    {keys[k] : k \in {c \in 1..Len(keys) : mask_row[IF Len(mask_row) = 1 THEN 1 ELSE c] = 0}}

PositionIndependentModes == {PEFT_NONE, PEFT_LORA, PEFT_ADAPTER, PEFT_BITFIT, PEFT_IA3}

\* C2: cache append is associative.  For an unpadded prompt in one of the
\* modes none, LoRA, adapter, BitFit and IA3, the token a step has just
\* processed attends the same keys, rotated with the same position ids, as it
\* does when prompt and generated tokens are scored in one call.
ClaimC2_StepMatchesOneShot ==
    (/\ pc = "aligned" /\ decode_step >= 1 /\ stepCall.ok
     /\ peft_mode \in PositionIndependentModes
     /\ Len(input_ids) = 1 /\ PromptValid[1] = PromptLen) =>
        LET one == LLaMAModel_forward(<<FullSequence>>)
            last == Len(FullSequence)
        IN  /\ one.ok
            /\ {CanonKey(e) : e \in Attended(stepCall.keys[1][1][1], stepCall.mask[1][1])}
                  = Attended(one.keys[1][1][1], one.mask[1][last])

\* C3: generate returns generation_length token ids for every row, prompt
\* included.
ClaimC3_ReturnsGenerationLength ==
    pc = "returned" =>
        /\ Len(output) = Len(input_ids)
        /\ \A i \in 1..Len(output) : Len(output[i]) = generation_length

\* C4: in every PEFT mode the first generated token of a row is read from the
\* logits at the position of the row's last valid prompt token.
ClaimC4_FirstTokenAtLastValid ==
    (primeCall.ok /\ argmaxIndex # <<>>) =>
        \A i \in 1..Len(input_ids) :
            primeCall.hidden[i][argmaxIndex[i] + 1]
                = <<"tok", PromptValid[i], input_ids[i][PromptValid[i]]>>

\* C5: shift_kv_cache_right permutes every row on its own.  The result has
\* the shape of the input; in row i and head h its last valid_lengths[i]
\* columns are the input's first valid_lengths[i] columns of that row and
\* head, in order, and the columns before them are the input's remaining
\* columns, in order.
ThmC5_ShiftIsRowPermutation ==
    shiftOut # <<>> =>
        /\ Len(shiftOut) = Len(shiftIn)
        /\ \A i \in 1..Len(shiftIn) :
              /\ Len(shiftOut[i]) = Len(shiftIn[i])
              /\ \A h \in 1..Len(shiftIn[i]) :
                    LET n == Len(shiftIn[i][h])
                        v == shiftValid[i]
                    IN  /\ Len(shiftOut[i][h]) = n
                        /\ \A c \in 1..v : shiftOut[i][h][n - v + c] = shiftIn[i][h][c]
                        /\ \A c \in 1..(n - v) : shiftOut[i][h][c] = shiftIn[i][h][v + c]

WitC5_MixedLengthsShifted ==
    /\ shiftOut # <<>>
    /\ Len(shiftIn) = 2 /\ Len(shiftIn[1]) = 2 /\ Len(shiftIn[1][1]) = 3
    /\ shiftValid[1] = 1 /\ shiftValid[2] = 2
    /\ shiftOut[1][2] # shiftIn[1][2]

\* C6: the causal mask is exact.  For a batch of any sequence length N the
\* additive mask is 1 x N x N, query position i has entry 0 at the key
\* positions up to i and the smallest finite value of the dtype at all later
\* ones, and no entry is negative infinity.
ThmC6_CausalMaskExact ==
    maskOut # <<>> =>
        LET n == SeqLenOf(maskIn)
        IN  /\ Len(maskOut) = 1
            /\ Len(maskOut[1]) = n
            /\ \A i \in 1..n :
                  /\ Len(maskOut[1][i]) = n
                  /\ \A j \in 1..n :
                        /\ (j <= i) => maskOut[1][i][j] = 0
                        /\ (j > i) => maskOut[1][i][j] = FinfoMin
                        /\ maskOut[1][i][j] # NegInf

WitC6_MaskOfLengthThree ==
    /\ maskOut # <<>>
    /\ Len(maskIn) = 2 /\ SeqLenOf(maskIn) = 3
    /\ maskOut[1][2] = <<0, 0, FinfoMin>>

\* C7: prefix lengths during priming.  When the layers are called with their
\* arguments in place the priming pass completes; in prefix mode every layer's keys are
\* num_prefix_tokens + prompt length long while the queries are prompt length
\* long; in prompt mode the queries are num_prefix_tokens + prompt length long.
ThmC7_PrefixLengthAccounting ==
    (primeCall.called /\ LayerArgsOk(primeCall.args)) =>
        /\ primeCall.ok
        /\ peft_mode = PEFT_PREFIX =>
              /\ primeCall.q_len = PromptLen
              /\ \A i \in 1..Len(input_ids) : Len(primeCall.hidden[i]) = PromptLen
              /\ \A l \in 1..NLayers : \A i \in 1..Len(input_ids) : \A h \in 1..NHeads :
                    Len(primeCall.keys[l][i][h]) = num_prefix_tokens + PromptLen
        /\ peft_mode = PEFT_PROMPT =>
              /\ primeCall.q_len = num_prefix_tokens + PromptLen
              /\ \A i \in 1..Len(input_ids) :
                    Len(primeCall.hidden[i]) = num_prefix_tokens + PromptLen

WitC7_PrimedWithPrefix ==
    /\ primeCall.ok
    /\ peft_mode = PEFT_PREFIX
    /\ num_prefix_tokens = 2 /\ PromptLen = 2 /\ Len(input_ids) = 2

\* C8: with config.gradient_checkpointing set, a layer is given the hidden
\* states, the attention mask, cos, sin and its own cache entry, each as the
\* parameter it is given as without checkpointing.
ClaimC8_CheckpointingSameArguments ==
    /\ scoreCall.called => scoreCall.args = KeywordCall
    /\ primeCall.called => primeCall.args = KeywordCall
    /\ stepCall.called => stepCall.args = KeywordCall

\* C9: create_model returns only when every declared parameter was supplied
\* exactly once by the checkpoint files, on the 8-bit and on the
\* full-precision path.
ClaimC9_LoadFailsLoudly ==
    loadPc = "returned" =>
        \A k \in declared : Cardinality({n \in 1..Len(files) : k \in files[n]}) = 1

\* down( silu(gate(x)) * up(x) ) on one channel
SwiGLU(m) ==
    Times(Times(F_silu(Linear(m.gate_w, m.x)), Linear(m.up_w, m.x)), m.down_w)

\* C10: without BitFit and IA3 hooks the feed-forward block computes
\* down( silu(gate(x)) * up(x) ).
ClaimC10_FeedForwardIsSwiGLU ==
    (mlpOut # <<>> /\ mlpIn.mode \notin {PEFT_BITFIT, PEFT_IA3}) =>
        mlpOut = SwiGLU(mlpIn)

\* An entry of the cache that is not padding: a learned prefix, a virtual
\* prompt position, a generated token, or a prompt token other than the pad
RealEntry(e) == e[1] # "tok" \/ e[3] # pad_token_id

\* The real entries of a cache row are its last ones, in the order they have
\* in `before`, and everything in front of them is padding
RightAligned(before, after) ==
    LET real == SelectSeq(before, RealEntry)
        n == Len(before)
        r == Len(real)
    IN  /\ Len(after) = n
        /\ SubSeq(after, n - r + 1, n) = real
        /\ \A c \in 1..(n - r) : ~RealEntry(after[c])

\* C11: after Align every layer's key and value cache is right-aligned, for
\* every batch size and PEFT mode: the real entries of a row (prefix or
\* virtual prompt entries and valid prompt tokens) are its last columns, in
\* their original order, with all padding in front; and each layer's cache
\* is what one application of the shift makes of the primed cache.
ClaimC11_CacheRightAligned ==
    (pc = "aligned" /\ decode_step = 0) =>
        \A l \in 1..NLayers :
            /\ kv_cache[l].key = shift_kv_cache_right(primeCall.keys[l], num_valid_kv_cache)
            /\ kv_cache[l].value = shift_kv_cache_right(primeCall.values[l], num_valid_kv_cache)
            /\ \A i \in 1..Len(input_ids) : \A h \in 1..NHeads :
                  /\ RightAligned(primeCall.keys[l][i][h], kv_cache[l].key[i][h])
                  /\ RightAligned(primeCall.values[l][i][h], kv_cache[l].value[i][h])

\* The positions the virtual prompt takes in front of a row's tokens
StructPrompt == IF peft_mode = PEFT_PROMPT THEN num_prefix_tokens ELSE 0
\* The number of Step calls made so far in this run of generate
StepsTaken ==
    total_seq_len - PromptLen
        - (IF peft_mode \in {PEFT_PREFIX, PEFT_PROMPT} THEN num_prefix_tokens ELSE 0)

\* C12: in every Step the new token of every row is given one rotary
\* position id, its absolute position in the row's real sequence: the
\* positions of the virtual prompt and of the valid prompt tokens come first,
\* and the n-th step's token follows them without a gap or a repeat.
ClaimC12_StepPositionContiguous ==
    (primeCall.ok /\ stepCall.called) =>
        \A i \in 1..Len(input_ids) :
            stepCall.rope[i] = << StructPrompt + PromptValid[i] + StepsTaken - 1 >>

\* C13: every rotary lookup of score and generate is served: no call asks
\* for a position id outside the table.
ClaimC13_RotaryLookupServed ==
    \A call \in {scoreCall, primeCall, stepCall} :
        call.called => get_cos_sin_ok(call.rope)

\* C14: in every call of a generation run that reaches the layers, the
\* mask's query length is the number of new positions, its key length is the
\* cached length before the call plus the new positions, and every layer's
\* keys and values are the cached length plus the new positions long.
ClaimC14_MaskAndCacheDimensions ==
    \A call \in {primeCall, stepCall} :
        (call.called /\ call.hidden # <<>> /\ LayerArgsOk(call.args)) =>
            LET new == SeqLenOf(call.hidden)
            IN  /\ \A b \in 1..Len(call.mask) :
                      /\ Len(call.mask[b]) = new
                      /\ \A q \in 1..new : Len(call.mask[b][q]) = call.cached + new
                /\ \A l \in 1..NLayers : \A i \in 1..Len(input_ids) : \A h \in 1..NHeads :
                      /\ Len(call.keys[l][i][h]) = call.cached + new
                      /\ Len(call.values[l][i][h]) = call.cached + new

IsVirt(e) == e[1] = "virt"
VirtCount(row) == Len(SelectSeq(row, IsVirt))

\* C15: in prompt mode the virtual prompt embeddings are put in front of the
\* tokens once in a scoring call and once in the Prime call, a Step call
\* processes its one token without them, and each cache row holds them once;
\* in the other modes no call adds them.
ThmC15_PromptPrependedOnce ==
    /\ \A call \in {scoreCall, primeCall} :
          (call.called /\ call.hidden # <<>>) =>
              \A i \in 1..Len(input_ids) :
                  LET row == call.hidden[i]
                  IN  IF peft_mode = PEFT_PROMPT
                      THEN /\ Len(row) = num_prefix_tokens + PromptLen
                           /\ VirtCount(row) = num_prefix_tokens
                           /\ \A k \in 1..num_prefix_tokens : IsVirt(row[k])
                      ELSE VirtCount(row) = 0
    /\ (stepCall.called /\ stepCall.hidden # <<>>) =>
          \A i \in 1..Len(input_ids) :
              Len(stepCall.hidden[i]) = 1 /\ VirtCount(stepCall.hidden[i]) = 0
    /\ kv_cache # <<>> =>
          \A l \in 1..NLayers : \A i \in 1..Len(input_ids) : \A h \in 1..NHeads :
              VirtCount(kv_cache[l].key[i][h]) = StructPrompt

WitC15_PromptModeStepped ==
    /\ peft_mode = PEFT_PROMPT /\ num_prefix_tokens = 2
    /\ scoreCall.ok /\ primeCall.ok /\ stepCall.ok
    /\ pc = "returned" /\ decode_step = 1

\* C16: in every Step and every mode the step mask lets a row attend exactly
\* the key columns that hold real entries of the row: no padding column is
\* attendable and no real column is blocked.
ClaimC16_StepMaskMarksRealColumns ==
    stepCall.ok =>
        \A i \in 1..Len(input_ids) :
            LET keys == stepCall.keys[1][i][1]
                mask_row == stepCall.mask[i][1]
            IN  /\ Len(mask_row) = Len(keys)
                /\ \A c \in 1..Len(keys) : (mask_row[c] = 0) <=> RealEntry(keys[c])

\* MLP.forward with the up output offset by the up-projection bias
MLP_own_biases(m) ==
    Plus(Times(F_silu(BitFitAddBias(m.gate_b, Linear(m.gate_w, m.x))
                      * BitFitAddBias(m.up_b, Linear(m.up_w, m.x))),
               m.down_w),
         m.down_b)

\* C17: in BitFit mode the MLP offsets the gate output by the gate bias, the
\* up output by the up-projection bias and the down output by the down bias,
\* each bias at its own point.
ClaimC17_BitFitBiasesAtOwnPoints ==
    (mlpOut # <<>> /\ mlpIn.mode = PEFT_BITFIT) =>
        mlpOut = MLP_own_biases(mlpIn)

====
